---- MODULE Spec2Model ----
(***************************************************************************)
(* Inventory ledger of the CRM application (src/app.py): the products,     *)
(* purchases and sales tables, the three POST handlers that write them and *)
(* the two report queries that read them.                                  *)
(*                                                                         *)
(* Every run_query call opens a connection, executes one statement and     *)
(* commits it (src/app.py:76-83), so one statement is one atomic step and  *)
(* a handler that issues several statements is several steps; the server   *)
(* started by app.run handles each request on a thread of its own, so the  *)
(* steps of different requests interleave.                                 *)
(*                                                                         *)
(* Columns that no statement reads back and that take no part in any       *)
(* computation (supplier_id, customer_id, note) are left out of the rows.  *)
(* Amounts are integer-valued, for which the float product is exact.       *)
(***************************************************************************)
EXTENDS Integers, Sequences, FiniteSets

\* ---------------------------------------------------------------- bounds
MaxRequests == 2     \* requests the server takes in one run
MaxClock == 1        \* readings the wall clock advances through

\* ------------------------------------------------------ program constants
LowStockThreshold == 5
ReportLimit == 100

\* ----------------------------------------------------------------- inputs
\* the products the store holds when the server starts: init_db keeps the
\* tables of an earlier run (CREATE TABLE IF NOT EXISTS), each row as it was
\* posted, with no purchase or sale recorded yet
Bolt == [sku |-> "A", name |-> "bolt", description |-> "m6", price |-> 2, stock |-> 5]
Nut == [sku |-> "A", name |-> "nut", description |-> "m8", price |-> 3, stock |-> 1]
Washer == [sku |-> "B", name |-> "washer", description |-> "m6", price |-> 1, stock |-> 5]
Stores == {<<>>, <<Bolt>>, <<Nut, Washer>>}
\* the product forms that are posted: two of them share a SKU
ProductForms == {Bolt, Nut, Washer}
ProductIds == {1, 2}
Qtys == {-1, 1, 3}
Amounts == {3}

\* the server starts a thread for every request it takes
Threads == 1..MaxRequests

VARIABLES
    products,      \* table products: row i has id i
    purchases,     \* table purchases, in insertion order
    sales,         \* table sales, in insertion order
    now,           \* the wall clock read by datetime.now()
    pc,            \* pc[t]: where the request served by thread t stands
    req,           \* req[t]: the parsed form and the locals of the handler
    flashed,       \* flashed[t]: the message the handler flashed, if any
    initialStock,  \* history: the stock each product row was inserted with
    failed         \* history: some statement has raised

vars == <<products, purchases, sales, now, pc, req, flashed, initialStock, failed>>

NoReq == [kind |-> "none"]
NoFlash == "none"

\* ------------------------------------------------------------ statements

\* a plain INSERT on a table whose sku is not UNIQUE
add_product_always(tbl, form) == Append(tbl, form)

\* INSERT OR IGNORE INTO products: sku is UNIQUE, a conflicting row is dropped
add_product(tbl, form) ==
    IF \E i \in DOMAIN tbl : tbl[i].sku = form.sku
    THEN tbl
    ELSE Append(tbl, form)

\* the UPDATE without its WHERE clause
update_stock_all(tbl, product_id, delta) ==
    [i \in DOMAIN tbl |-> [tbl[i] EXCEPT !.stock = @ + delta]]

\* UPDATE products SET stock = stock + ? WHERE id = ?
update_stock(tbl, product_id, delta) ==
    [i \in DOMAIN tbl |->
        IF i = product_id THEN [tbl[i] EXCEPT !.stock = @ + delta] ELSE tbl[i]]

\* datetime.now().isoformat(): the microseconds are left out when they are 0.
\* A clock reading t is second t \div 2, microsecond t % 2.
isoformat(t) ==
    IF t % 2 = 0 THEN <<t \div 2>> ELSE <<t \div 2, t % 2>>

\* TEXT comparison of two timestamps, field by field; a prefix sorts first
RECURSIVE TextLess(_, _)
TextLess(a, b) ==
    IF a = <<>> THEN b # <<>>
    ELSE IF b = <<>> THEN FALSE
    ELSE IF Head(a) # Head(b) THEN Head(a) < Head(b)
    ELSE TextLess(Tail(a), Tail(b))

\* qty * cost_per_item, qty * price_per_item
total(qty, per_item) == qty * per_item

\* the row record_purchase inserts
purchase_row(r) ==
    [product_id |-> r.product_id, qty |-> r.qty, cost_per_item |-> r.amount,
     total_cost |-> total(r.qty, r.amount), date |-> r.date]

\* the row record_sale inserts
sale_row(r) ==
    [product_id |-> r.product_id, qty |-> r.qty, price_per_item |-> r.amount,
     total_price |-> total(r.qty, r.amount), date |-> r.date]

\* sale(): products[products["id"] == product_id] is empty
not_found(tbl, product_id) == product_id \notin DOMAIN tbl

\* sale() without its stock check
not_enough_never(qty, stock_val) == FALSE

\* sale(): qty > stock_val
not_enough(qty, stock_val) == qty > stock_val

\* ---------------------------------------------------------------- reports

Range(f) == {f[i] : i \in DOMAIN f}

Min(a, b) == IF a < b THEN a ELSE b

\* the orders in which the ids of `rows` may be listed
Orders(rows) ==
    {o \in [DOMAIN rows -> DOMAIN rows] : \A i, j \in DOMAIN rows : i # j => o[i] # o[j]}

\* ORDER BY date, ascending
order_by_date_asc(rows) ==
    {o \in Orders(rows) :
        \A i, j \in DOMAIN rows : i < j => ~TextLess(rows[o[j]].date, rows[o[i]].date)}

\* ORDER BY date DESC: the ids of the rows, latest date first; rows of equal
\* date come in an order the store chooses
order_by_date_desc(rows) ==
    {o \in Orders(rows) :
        \A i, j \in DOMAIN rows : i < j => ~TextLess(rows[o[i]].date, rows[o[j]].date)}

\* SELECT * FROM <table> ORDER BY date DESC LIMIT <limit>: every answer the
\* store may give
recent(rows, limit) ==
    {SubSeq(o, 1, Min(limit, Len(rows))) : o \in order_by_date_desc(rows)}

\* the low-stock filter with < for <=
low_stock_below(tbl) == {i \in DOMAIN tbl : tbl[i].stock < LowStockThreshold}

\* index(): products_df[products_df["stock"] <= 5], by id
low_stock(tbl) == {i \in DOMAIN tbl : tbl[i].stock <= LowStockThreshold}

\* index(): what the dashboard is rendered from
index ==
    [total_products |-> Len(products),
     total_sales |-> Len(sales),
     total_purchases |-> Len(purchases),
     low_stock |-> low_stock(products)]

\* reports(): the sales and purchases lists
reports ==
    [sales |-> recent(sales, ReportLimit),
     purchases |-> recent(purchases, ReportLimit)]

\* ------------------------------------------------------------------ state

Init ==
    /\ products \in Stores
    /\ purchases = <<>>
    /\ sales = <<>>
    /\ now = 0
    /\ pc = [t \in Threads |-> "idle"]
    /\ req = [t \in Threads |-> NoReq]
    /\ flashed = [t \in Threads |-> NoFlash]
    /\ initialStock = [i \in DOMAIN products |-> products[i].stock]
    /\ failed = FALSE


\* datetime.now(): the clock has stood still or advanced since it was last read
Clock == now' \in {n \in {now, now + 1} : n <= MaxClock}

\* thread t is started for the next request
Accept(t) == pc[t] = "idle" /\ \A u \in Threads : u < t => pc[u] # "idle"

Finish(t, message) ==
    /\ pc' = [pc EXCEPT ![t] = "done"]
    /\ flashed' = [flashed EXCEPT ![t] = message]

\* ---------------------------------------------------------------- actions

\* POST /products
ProductsPost(t, form) ==
    /\ Accept(t)
    /\ products' = add_product(products, form)
    /\ initialStock' = IF Len(products') > Len(products)
                       THEN Append(initialStock, form.stock) ELSE initialStock
    /\ req' = [req EXCEPT ![t] = [kind |-> "product", form |-> form]]
    /\ Finish(t, "Product added (or ignored if SKU existed)")
    /\ UNCHANGED <<purchases, sales, now, failed>>

\* POST /purchase up to record_purchase's date = datetime.now().isoformat()
PurchasePost(t, product_id, qty, cost) ==
    /\ Accept(t)
    /\ Clock
    /\ req' = [req EXCEPT ![t] = [kind |-> "purchase", product_id |-> product_id,
                                  qty |-> qty, amount |-> cost, date |-> isoformat(now')]]
    /\ pc' = [pc EXCEPT ![t] = "purchase_insert"]
    /\ UNCHANGED <<products, purchases, sales, flashed, initialStock, failed>>

\* record_purchase: INSERT INTO purchases
PurchaseInsert(t) ==
    /\ pc[t] = "purchase_insert"
    /\ purchases' = Append(purchases, purchase_row(req[t]))
    /\ pc' = [pc EXCEPT ![t] = "purchase_stock"]
    /\ UNCHANGED <<products, sales, now, req, flashed, initialStock, failed>>

\* record_purchase: update_stock(product_id, qty), then the handler's flash
PurchaseStock(t) ==
    /\ pc[t] = "purchase_stock"
    /\ products' = update_stock(products, req[t].product_id, req[t].qty)
    /\ Finish(t, "Purchase recorded and stock updated")
    /\ UNCHANGED <<purchases, sales, now, req, initialStock, failed>>

\* POST /sale up to the stock check on the products read at the top of sale()
SalePost(t, product_id, qty, price) ==
    /\ Accept(t)
    /\ req' = [req EXCEPT ![t] = [kind |-> "sale", product_id |-> product_id,
                                  qty |-> qty, amount |-> price, date |-> <<>>]]
    /\ IF not_found(products, product_id)
       THEN Finish(t, "Product not found")
       ELSE IF not_enough(qty, products[product_id].stock)
       THEN Finish(t, "Not enough stock!")
       ELSE /\ pc' = [pc EXCEPT ![t] = "sale_date"]
            /\ UNCHANGED flashed
    /\ UNCHANGED <<products, purchases, sales, now, initialStock, failed>>

\* record_sale: date = datetime.now().isoformat()
SaleDate(t) ==
    /\ pc[t] = "sale_date"
    /\ Clock
    /\ req' = [req EXCEPT ![t].date = isoformat(now')]
    /\ pc' = [pc EXCEPT ![t] = "sale_stock"]
    /\ UNCHANGED <<products, purchases, sales, flashed, initialStock, failed>>

\* record_sale: update_stock(product_id, -qty)
SaleStock(t) ==
    /\ pc[t] = "sale_stock"
    /\ products' = update_stock(products, req[t].product_id, -req[t].qty)
    /\ pc' = [pc EXCEPT ![t] = "sale_insert"]
    /\ UNCHANGED <<purchases, sales, now, req, flashed, initialStock, failed>>

\* record_sale: INSERT INTO sales, then the handler's flash
SaleInsert(t) ==
    /\ pc[t] = "sale_insert"
    /\ sales' = Append(sales, sale_row(req[t]))
    /\ Finish(t, "Sale recorded and stock reduced")
    /\ UNCHANGED <<products, purchases, now, req, initialStock, failed>>

\* the second statement of a record operation raises in run_query (the store
\* is locked, full or unreachable): the exception leaves the handler and the
\* first statement, committed by its own run_query, stays. A first statement
\* that raises leaves the store as it was and is not modelled.
Raise(t) ==
    /\ pc[t] \in {"purchase_stock", "sale_insert"}
    /\ pc' = [pc EXCEPT ![t] = "raised"]
    /\ failed' = TRUE
    /\ UNCHANGED <<products, purchases, sales, now, req, flashed, initialStock>>

Next ==
    \/ \E t \in Threads, form \in ProductForms : ProductsPost(t, form)
    \/ \E t \in Threads, id \in ProductIds, qty \in Qtys, cost \in Amounts :
          PurchasePost(t, id, qty, cost)
    \/ \E t \in Threads : PurchaseInsert(t)
    \/ \E t \in Threads : PurchaseStock(t)
    \/ \E t \in Threads, id \in ProductIds, qty \in Qtys, price \in Amounts :
          SalePost(t, id, qty, price)
    \/ \E t \in Threads : SaleDate(t)
    \/ \E t \in Threads : SaleStock(t)
    \/ \E t \in Threads : SaleInsert(t)
    \/ \E t \in Threads : Raise(t)

Spec == Init /\ [][Next]_vars

\* ------------------------------------------------------------- properties

RECURSIVE SumQty(_, _)
\* the sum of qty over the rows of a table that refer to product id
SumQty(rows, id) ==
    IF rows = <<>> THEN 0
    ELSE (IF Head(rows).product_id = id THEN Head(rows).qty ELSE 0) + SumQty(Tail(rows), id)

\* no request is between its first and its last statement
Quiescent == \A t \in Threads : pc[t] \in {"idle", "done", "raised"}

Balanced(i) ==
    products[i].stock = initialStock[i] + SumQty(purchases, i) - SumQty(sales, i)

Records(t) == req[t].kind \in {"purchase", "sale"}

\* every purchase and sale request taken so far has a quantity above 0
PositiveQtys == \A t \in Threads : Records(t) => req[t].qty > 0

\* thread t takes the step from pc value `from` to pc value `to`
Step(t, from, to) == pc[t] = from /\ pc'[t] = to

\* C1: for every existing product, once the purchase and sale calls made so
\* far have all completed (none in progress, none failed), stock equals the
\* initial stock plus the purchased quantities minus the sold quantities of
\* the rows persisted for that product. Stated for calls with qty > 0, the
\* quantities the operations are specified for.
C1_StockLedger ==
    (Quiescent /\ ~failed /\ PositiveQtys) => \A i \in DOMAIN products : Balanced(i)

\* C2: a sale request for an existing product whose qty exceeds the stock
\* the store holds is answered "Not enough stock!" at once and changes
\* neither the products nor the sales.
C2_InsufficientStock ==
    [][\A t \in Threads :
          ( /\ pc[t] = "idle" /\ pc'[t] # "idle"
            /\ req'[t].kind = "sale"
            /\ req'[t].product_id \in DOMAIN products
            /\ req'[t].qty > products[req'[t].product_id].stock )
          => /\ pc'[t] = "done"
             /\ flashed'[t] = "Not enough stock!"
             /\ products' = products
             /\ sales' = sales
             /\ purchases' = purchases]_vars

C2_Rejected ==
    \E t \in Threads :
        /\ pc[t] = "done" /\ req[t].kind = "sale"
        /\ flashed[t] = "Not enough stock!"
        /\ req[t].qty > products[req[t].product_id].stock

\* C3: a purchase or sale request with qty <= 0 is refused: it is never
\* answered with a success message, and no purchase or sale row with
\* qty <= 0 is persisted.
C3_NonPositiveQtyRefused ==
    /\ \A t \in Threads :
          (Records(t) /\ req[t].qty <= 0) =>
              flashed[t] \notin {"Purchase recorded and stock updated",
                                    "Sale recorded and stock reduced"}
    /\ \A k \in DOMAIN purchases : purchases[k].qty > 0
    /\ \A k \in DOMAIN sales : sales[k].qty > 0

UniqueSku ==
    \A i, j \in DOMAIN products : i # j => products[i].sku # products[j].sku

\* C4: no two product rows share a SKU, and a product post whose SKU is
\* already in the table leaves the table as it was and is answered with the
\* same success message as any other.
C4_IdempotentBySku ==
    [](UniqueSku) /\
    [][\A t \in Threads :
          ( /\ Step(t, "idle", "done")
            /\ req'[t].kind = "product"
            /\ \E i \in DOMAIN products : products[i].sku = req'[t].form.sku )
          => /\ products' = products
             /\ flashed'[t] = "Product added (or ignored if SKU existed)"]_vars

C4_Ignored ==
    \E t \in Threads :
        /\ pc[t] = "done" /\ req[t].kind = "product"
        /\ \E i \in DOMAIN products :
              /\ products[i].sku = req[t].form.sku
              /\ products[i].name # req[t].form.name
              /\ products[i].stock # req[t].form.stock

\* what a successful sale does to the stock and to the tables, step by step
SaleEffect(t) ==
    /\ Step(t, "sale_stock", "sale_insert") =>
          /\ DOMAIN products' = DOMAIN products
          /\ \A i \in DOMAIN products :
                products'[i] = IF i = req[t].product_id
                               THEN [products[i] EXCEPT !.stock = @ - req[t].qty]
                               ELSE products[i]
          /\ sales' = sales /\ purchases' = purchases
    /\ Step(t, "sale_insert", "done") =>
          /\ Len(sales') = Len(sales) + 1
          /\ SubSeq(sales', 1, Len(sales)) = sales
          /\ sales'[Len(sales')].product_id = req[t].product_id
          /\ sales'[Len(sales')].qty = req[t].qty
          /\ sales'[Len(sales')].total_price = req[t].qty * req[t].amount
          /\ products' = products /\ purchases' = purchases
          /\ flashed'[t] = "Sale recorded and stock reduced"

\* the limits that stand for every limit >= 1: a limit above the number of
\* rows returns them all, as the limit of reports() does
Limits(rows) == (1..(Len(rows) + 1)) \cup {ReportLimit}

\* the number of rows whose date is not earlier than that of row k
NotEarlier(rows, k) ==
    Cardinality({j \in DOMAIN rows : j # k /\ ~TextLess(rows[j].date, rows[k].date)})

\* C5 (as stated): a successful sale lowers the stock of its product by qty,
\* adds exactly one sale row with that product, qty and total_price =
\* qty * price, changes no other stock and no purchase row, and the new row
\* is in every answer of the recent-sales query taken right after the
\* insert, whatever the limit >= 1.
C5_RecentAnyLimit ==
    [][\A t \in Threads :
          /\ req[t].kind = "sale" => SaleEffect(t)
          /\ (Step(t, "sale_insert", "done") /\ PositiveQtys) =>
                \A limit \in Limits(sales') : \A r \in recent(sales', limit) :
                    Len(sales') \in Range(r)]_vars

\* C5 (amended): as above, but the new row is in every answer of the
\* recent-sales query for the limits that exceed the number of other sale
\* rows whose timestamp is not earlier than the new row's.
C5_RecentSale ==
    [][\A t \in Threads :
          /\ req[t].kind = "sale" => SaleEffect(t)
          /\ Step(t, "sale_insert", "done") =>
                \A limit \in Limits(sales') :
                    limit > NotEarlier(sales', Len(sales')) =>
                        \A r \in recent(sales', limit) : Len(sales') \in Range(r)]_vars

C5_Sold ==
    \E t \in Threads :
        /\ pc[t] = "done" /\ req[t].kind = "sale" /\ req[t].qty > 0
        /\ flashed[t] = "Sale recorded and stock reduced"
        /\ Len(sales) >= 2
        /\ sales[Len(sales)].product_id = req[t].product_id
        /\ NotEarlier(sales, Len(sales)) = 0

\* C6: a purchase with qty > 0 on an existing product raises the purchase
\* count of the dashboard by exactly 1 with a row of total_cost = qty * cost,
\* and raises that product's stock by exactly qty; the product count, the
\* sale count and every other product row stay as they were.
C6_PurchaseFrame ==
    [][\A t \in Threads :
          ( /\ req[t].kind = "purchase" /\ req[t].qty > 0
            /\ req[t].product_id \in DOMAIN products )
          => /\ Step(t, "purchase_insert", "purchase_stock") =>
                   /\ index'.total_purchases = index.total_purchases + 1
                   /\ index'.total_products = index.total_products
                   /\ index'.total_sales = index.total_sales
                   /\ products' = products
                   /\ SubSeq(purchases', 1, Len(purchases)) = purchases
                   /\ purchases'[Len(purchases')].product_id = req[t].product_id
                   /\ purchases'[Len(purchases')].qty = req[t].qty
                   /\ purchases'[Len(purchases')].total_cost = req[t].qty * req[t].amount
             /\ Step(t, "purchase_stock", "done") =>
                   /\ index'.total_purchases = index.total_purchases
                   /\ index'.total_products = index.total_products
                   /\ index'.total_sales = index.total_sales
                   /\ purchases' = purchases /\ sales' = sales
                   /\ \A i \in DOMAIN products :
                         products'[i] = IF i = req[t].product_id
                                        THEN [products[i] EXCEPT !.stock = @ + req[t].qty]
                                        ELSE products[i]]_vars

C6_Purchased ==
    \E t \in Threads :
        /\ pc[t] = "done" /\ req[t].kind = "purchase" /\ req[t].qty > 0
        /\ flashed[t] = "Purchase recorded and stock updated"
        /\ Len(products) = 2
        /\ req[t].product_id \in DOMAIN products
        /\ products[req[t].product_id].stock =
              initialStock[req[t].product_id] + req[t].qty
        /\ index.total_purchases = 1

LowStockExact ==
    /\ index.low_stock \subseteq DOMAIN products
    /\ \A i \in DOMAIN products : i \in index.low_stock <=> products[i].stock <= 5

C8_RowsReferToProducts ==
    PositiveQtys =>
        /\ \A k \in DOMAIN purchases : purchases[k].product_id \in DOMAIN products
        /\ \A k \in DOMAIN sales : sales[k].product_id \in DOMAIN products

\* C9: with stocks that start at 0 or more and quantities that are all
\* positive, no product's stock is ever negative, whatever the interleaving
\* of the requests.
C9_NoOversell ==
    ( /\ \A i \in DOMAIN initialStock : initialStock[i] >= 0
      /\ PositiveQtys )
    => \A i \in DOMAIN products : products[i].stock >= 0

\* C10: a record operation with qty > 0 on an existing product that has
\* committed its first statement does not end without its second: a purchase
\* that has inserted its row ends with the stock raised, a sale that has
\* lowered the stock ends with its row inserted.
C10_BothOrNeither ==
    [][\A t \in Threads :
          /\ ( /\ pc[t] = "purchase_stock" /\ pc'[t] # "purchase_stock"
               /\ req[t].qty > 0
               /\ req[t].product_id \in DOMAIN products )
             => products'[req[t].product_id].stock =
                    products[req[t].product_id].stock + req[t].qty
          /\ ( pc[t] = "sale_insert" /\ pc'[t] # "sale_insert" /\ req[t].qty > 0 )
             => Len(sales') = Len(sales) + 1]_vars

====
